---- MODULE Spec2Model ----
(***************************************************************************)
(* Story-beat keyword extraction of sayless (src/keyword_phrases.py), and   *)
(* the temporary files of its Telegram handler (src/main.py,               *)
(* src/soundbite_generator.py).                                            *)
(*                                                                         *)
(* Representation.  A text is a sequence of items: a word, a punctuation   *)
(* mark, or Blank (a run of extra whitespace); consecutive items are       *)
(* separated by one space.  A phrase string is the sequence of its words   *)
(* (the words joined by single spaces), so equality of phrase strings is   *)
(* equality of sequences.  Len(w) of a word is its number of characters.   *)
(* Scores are kept exact in hundredths (0.4 is 40).                        *)
(***************************************************************************)
EXTENDS Integers, Sequences, FiniteSets, TLC

(***************************************************************************)
(* Vocabularies and tunables (keyword_phrases.py lines 8-62).              *)
(***************************************************************************)
FILLERS ==
    {"uh", "um", "eh", "lah", "leh", "lor", "sia", "bro", "bruh",
     "omg", "ya", "yah", "okay", "ok"}

DISCOURSE ==
    {"basically", "recently", "actually", "literally", "anyway", "anyways",
     "like", "just", "mean", "alright", "right", "kinda", "kind", "sorta",
     "sort", "so", "well"}

STOPWORDS ==
    {"i", "me", "my", "mine", "we", "our", "you", "your", "he", "she", "they",
     "it", "a", "an", "the", "and", "or", "but", "because", "then",
     "is", "am", "are", "was", "were", "be", "been", "being",
     "to", "of", "in", "on", "at", "for", "with", "as", "that", "this",
     "really", "very", "today", "now", "later",
     "ll", "im", "ive", "dont", "cant", "wont", "not"}

GENERIC_DROP ==
    {"day", "again", "whole", "time", "thing", "stuff",
     "supposed", "weeks", "week", "back", "speaking", "found",
     "next", "everywhere", "still", "shall", "there", "before",
     "we", "had", "such", "a"}

EMOTION_WORDS ==
    {"insecure", "anxious", "stressed", "worried", "scared",
     "sad", "angry", "upset", "happy", "excited",
     "tired", "tiring", "hungry", "confused", "awkward",
     "devastated", "embarrassed"}

COMMON_VERBS ==
    {"wake", "woke", "sleep", "overslept",
     "miss", "missed", "rush", "rushed", "run", "ran", "running",
     "drop", "dropped", "spill", "spilled",
     "cry", "cried", "laugh", "laughed",
     "shower", "showered", "forget", "forgot",
     "call", "called", "reach", "reached", "realise", "realised",
     "realize", "realized", "wear", "wearing", "wore",
     "choose", "choosing", "chose",
     "argue", "argued", "disagree", "disagreement",
     "break", "broke", "broken",
     "cheat", "cheated", "scream", "screaming",
     "rain", "raining", "rained",
     "want", "wanted", "go", "home"}

\* MIN_PHRASE_SCORE = 1.0, in hundredths.
MIN_PHRASE_SCORE == 100

RARE_TOKEN_FILL_THRESHOLD == 6

\* The position _first_pos_of_any_token gives a phrase none of whose tokens
\* occurs in the transcript (10**9).
NoPos == 1000000000

(***************************************************************************)
(* Generic helpers.                                                        *)
(***************************************************************************)
Min(a, b) == IF a < b THEN a ELSE b

Max(a, b) == IF a > b THEN a ELSE b

Range(s) == {s[i] : i \in 1..Len(s)}

RECURSIVE Concat(_)
\* The concatenation of a sequence of sequences.
Concat(ss) == IF ss = <<>> THEN <<>> ELSE Head(ss) \o Concat(Tail(ss))

\* x in s, for a Python list s.
InList(x, s) == \E i \in 1..Len(s) : s[i] = x

\* re.search(rf"\b{p}\b", q) for two cleaned strings: the words of p are a
\* contiguous run of the words of q.
HasRun(q, p) ==
    /\ Len(p) >= 1
    /\ \E i \in 1..(Len(q) - Len(p) + 1) : SubSeq(q, i, i + Len(p) - 1) = p

RECURSIVE SumLen(_)
SumLen(ws) == IF ws = <<>> THEN 0 ELSE Len(Head(ws)) + SumLen(Tail(ws))

\* len(p) of a phrase string: its characters and the single spaces between
\* its words.
StrLen(ws) == IF ws = <<>> THEN 0 ELSE SumLen(ws) + (Len(ws) - 1)

(***************************************************************************)
(* Text normalisation (lines 65-106).                                      *)
(***************************************************************************)
Punct == {".", ",", "!", "?", ";", ":"}

Blank == " "

\* _expand_contractions on one item (re.IGNORECASE; the replacement text is
\* the literal of the source, capital I included).
ExpandItem(w) ==
    CASE w \in {"i'm", "I'm"}       -> <<"I", "am">>
      [] w \in {"i've", "I've"}     -> <<"I", "have">>
      [] w \in {"i'll", "I'll"}     -> <<"I", "will">>
      [] w \in {"can't", "Can't"}   -> <<"cannot">>
      [] w \in {"don't", "Don't"}   -> <<"do", "not">>
      [] w \in {"won't", "Won't"}   -> <<"will", "not">>
      [] w \in {"it's", "It's"}     -> <<"it", "is">>
      [] w \in {"that's", "That's"} -> <<"that", "is">>
      [] OTHER                      -> <<w>>

ExpandContractions(s) == Concat([i \in 1..Len(s) |-> ExpandItem(s[i])])

\* str.lower() on one item (the items of the model that have capitals).
Lower(w) ==
    CASE w = "I"      -> "i"
      [] w = "Today"  -> "today"
      [] w = "So"     -> "so"
      [] w = "I'm"    -> "i'm"
      [] w = "I've"   -> "i've"
      [] w = "I'll"   -> "i'll"
      [] w = "Can't"  -> "can't"
      [] w = "Don't"  -> "don't"
      [] w = "Won't"  -> "won't"
      [] w = "It's"   -> "it's"
      [] w = "That's" -> "that's"
      [] OTHER        -> w

\* re.sub(r"[^a-z0-9\s]", " ", .) and the whitespace collapse on one
\* lowercased item: punctuation and blanks leave nothing, an apostrophe
\* splits the item, a word stays.
CleanItem(w) ==
    CASE w \in Punct \cup {Blank} -> <<>>
      [] w = "i'm"    -> <<"i", "m">>
      [] w = "i've"   -> <<"i", "ve">>
      [] w = "i'll"   -> <<"i", "ll">>
      [] w = "can't"  -> <<"can", "t">>
      [] w = "don't"  -> <<"don", "t">>
      [] w = "won't"  -> <<"won", "t">>
      [] w = "it's"   -> <<"it", "s">>
      [] w = "that's" -> <<"that", "s">>
      [] OTHER        -> <<w>>

\* _clean_text: the words of the cleaned string.
CleanText(s) == Concat([i \in 1..Len(s) |-> CleanItem(Lower(s[i]))])

NormalizeTokensForOrder(text) ==
    SelectSeq(CleanText(ExpandContractions(text)),
              LAMBDA t : t \notin FILLERS /\ t \notin STOPWORDS
                         /\ t \notin DISCOURSE)

RECURSIVE ReplaceMarkers(_)
\* re.sub(r"\b(and then|then|but|so)\b", ", ", s)
ReplaceMarkers(s) ==
    IF s = <<>> THEN <<>>
    ELSE IF Len(s) >= 2 /\ s[1] = "and" /\ s[2] = "then"
         THEN <<",">> \o ReplaceMarkers(SubSeq(s, 3, Len(s)))
    ELSE IF s[1] \in {"then", "but", "so"}
         THEN <<",">> \o ReplaceMarkers(Tail(s))
    ELSE <<s[1]>> \o ReplaceMarkers(Tail(s))

RECURSIVE SplitOnPunct(_, _)
\* re.split(r"[.,!?;:]+", s): the parts between punctuation items; cur is
\* the part being read.
SplitOnPunct(s, cur) ==
    IF s = <<>> THEN <<cur>>
    ELSE IF s[1] \in Punct THEN <<cur>> \o SplitOnPunct(Tail(s), <<>>)
    ELSE SplitOnPunct(Tail(s), Append(cur, s[1]))

\* A part left as re.split gives it, the strip of line 93 missing.
StripNothing(p) == p

RECURSIVE Strip(_)
\* str.strip() on a part: blanks at both ends go.
Strip(p) ==
    IF p = <<>> THEN <<>>
    ELSE IF p[1] = Blank THEN Strip(Tail(p))
    ELSE IF p[Len(p)] = Blank THEN Strip(SubSeq(p, 1, Len(p) - 1))
    ELSE p

SplitClausesKeepPunct(raw) ==
    LET lowered == [i \in 1..Len(ExpandContractions(raw)) |->
                        Lower(ExpandContractions(raw)[i])]
        parts   == SplitOnPunct(ReplaceMarkers(lowered), <<>>)
        strips  == [i \in 1..Len(parts) |-> Strip(parts[i])]
    IN  SelectSeq(strips, LAMBDA p : p # <<>>)

\* _phrase_tokens without the STOPWORDS test.
PhraseTokensKeepStopwords(ws) ==
    SelectSeq(ws, LAMBDA t :
        /\ ~(t \in FILLERS \/ t \in DISCOURSE)
        /\ ~(Len(t) < 2)
        /\ t \notin GENERIC_DROP)

\* _phrase_tokens on the words of a text.
PhraseTokens(ws) ==
    SelectSeq(ws, LAMBDA t :
        /\ ~(t \in FILLERS \/ t \in STOPWORDS \/ t \in DISCOURSE)
        /\ ~(Len(t) < 2)
        /\ t \notin GENERIC_DROP)

\* _phrase_tokens(_clean_text(p)) of a phrase string p.
Toks(p) == PhraseTokens(CleanText(p))

(***************************************************************************)
(* Scoring and ordering (lines 109-134).                                   *)
(***************************************************************************)
\* t.endswith("ed") or t.endswith("ing"), on the words of the model.
EndsEdIng(t) ==
    t \in {"wanted", "missed", "barked", "tired", "devastated", "rained",
           "raining", "tiring", "running", "sleeping", "meowing"}

RECURSIVE SumCapped(_)
\* sum(min(len(t), 10) for t in tokens)
SumCapped(ws) ==
    IF ws = <<>> THEN 0 ELSE Min(Len(Head(ws)), 10) + SumCapped(Tail(ws))

\* _story_quality, in hundredths.
StoryQuality(tokens) ==
    IF tokens = <<>> THEN -99900
    ELSE (CASE Len(tokens) = 1 -> 40
            [] Len(tokens) = 2 -> 120
            [] Len(tokens) = 3 -> 110
            [] OTHER           -> -90)
         + (IF \E i \in 1..Len(tokens) :
                   tokens[i] \in COMMON_VERBS \/ EndsEdIng(tokens[i])
            THEN 90 ELSE 0)
         + 3 * SumCapped(tokens)

\* _first_pos_of_any_token finding no token of any phrase.
FirstPosNowhere(full, ptoks) == NoPos

\* _first_pos_of_any_token, with 1-based positions.
FirstPosOfAnyToken(full, ptoks) ==
    LET hits == {i \in 1..Len(full) : full[i] \in Range(ptoks)}
    IN  IF hits = {} THEN NoPos
        ELSE CHOOSE i \in hits : \A j \in hits : i <= j

RECURSIVE InsertByKey(_, _)
\* x placed after every element whose key is not greater than its own.
InsertByKey(sorted, x) ==
    IF sorted = <<>> THEN <<x>>
    ELSE IF Head(sorted).k <= x.k
         THEN <<Head(sorted)>> \o InsertByKey(Tail(sorted), x)
         ELSE <<x>> \o sorted

RECURSIVE StableSort(_)
\* list.sort on records [k |-> key, v |-> value]: ascending in k, equal keys
\* keep their order.
StableSort(s) ==
    IF s = <<>> THEN <<>>
    ELSE InsertByKey(StableSort(SubSeq(s, 1, Len(s) - 1)), s[Len(s)])

Values(s) == [i \in 1..Len(s) |-> s[i].v]

(***************************************************************************)
(* Candidate generation (lines 137-198).                                   *)
(***************************************************************************)
RECURSIVE KeepFirst(_, _)
\* The "de-dup keep order" loop of _story_rule_phrases; a phrase string is in
\* GENERIC_DROP when it is one word of that set.
KeepFirst(out, res) ==
    IF out = <<>> THEN res
    ELSE LET x == Head(out)
         IN  IF ~InList(x, res) /\ ~(Len(x) = 1 /\ x[1] \in GENERIC_DROP)
             THEN KeepFirst(Tail(out), Append(res, x))
             ELSE KeepFirst(Tail(out), res)

StoryRulePhrases(raw) ==
    LET s == CleanText(ExpandContractions(raw))
        Hit(cond, x) == IF cond THEN <<x>> ELSE <<>>
        out ==
            Hit(HasRun(s, <<"today">>), <<"today">>)
         \o Hit(HasRun(s, <<"yesterday">>), <<"yesterday">>)
         \o Hit(HasRun(s, <<"after", "lunch">>), <<"after", "lunch">>)
         \o Hit(HasRun(s, <<"before", "lunch">>), <<"before", "lunch">>)
         \o Hit(HasRun(s, <<"next", "day">>), <<"next", "day">>)
         \o Hit(HasRun(s, <<"tomorrow">>), <<"tomorrow">>)
         \o Hit(\E w \in {"rain", "raining", "rained"} : HasRun(s, <<w>>),
                <<"raining">>)
         \o Hit(HasRun(s, <<"weather">>), <<"weather">>)
         \o Hit(\E w \in {"tire", "tiring", "tired"} : HasRun(s, <<w>>),
                <<"tiring">>)
         \o Hit(HasRun(s, <<"sleep">>), <<"sleep">>)
         \o Hit(HasRun(s, <<"go", "home">>)
                  \/ HasRun(s, <<"wanted", "to", "go", "home">>),
                <<"go", "home">>)
    IN  KeepFirst(out, <<>>)

\* The test of lines 184-194 on one ranked pair e = [phrase, score]; the
\* score of the ranking is in hundredths, and both sides of
\* combined < MIN_PHRASE_SCORE are doubled to keep 0.5 * yake_score exact.
Combined2(e) == 2 * StoryQuality(PhraseTokens(e.phrase)) - e.score

\* The test of lines 184-194 without the rejection of line 185.
AcceptedNegated(e) ==
    /\ PhraseTokens(e.phrase) # <<>>
    /\ ~(Len(PhraseTokens(e.phrase)) > 5)
    /\ ~(Combined2(e) < 2 * MIN_PHRASE_SCORE)

Accepted(e) ==
    /\ ~("not" \in Range(e.phrase)
           /\ \E w \in EMOTION_WORDS : w \in Range(e.phrase))
    /\ PhraseTokens(e.phrase) # <<>>
    /\ ~(Len(PhraseTokens(e.phrase)) > 5)
    /\ ~(Combined2(e) < 2 * MIN_PHRASE_SCORE)

\* The list candidates of lines 182-195: a record [k, v] for each accepted
\* pair, v the filtered phrase and k its combined score (doubled, hundredths)
\* with the sign turned, so that ascending k is descending score.
Candidates(ranked) ==
    LET kept == SelectSeq(ranked, Accepted)
    IN  [i \in 1..Len(kept) |->
            [k |-> 0 - Combined2(kept[i]),
             v |-> PhraseTokens(kept[i].phrase)]]

\* The list candidates left as the loop built it, the sort of line 197
\* missing.
UnsortedCandidates(ranked) == Candidates(ranked)

\* Line 197: candidates.sort(key=lambda x: x[1], reverse=True), which keeps
\* the order of candidates of equal score.
SortedCandidates(ranked) == StableSort(Candidates(ranked))

\* _extract_from_clause; ranked is what extract_keywords returns for the
\* cleaned clause (read only when the clause has more than 3 tokens).
ExtractFromClause(clause_raw, ranked) ==
    LET clause_clean == CleanText(ExpandContractions(clause_raw))
        toks == PhraseTokens(clause_clean)
        sorted == Values(SortedCandidates(ranked))
    IN  IF toks = <<>> THEN <<>>
        ELSE IF Len(toks) <= 3 THEN <<toks>>
        ELSE SubSeq(sorted, 1, Min(4, Len(sorted)))

\* The test of line 176 as len(toks) < 3: a clause of 3 tokens goes to the
\* ranking service.
CallsRankingFromThree(clause_raw) ==
    Len(PhraseTokens(CleanText(ExpandContractions(clause_raw)))) > 2

\* Whether _extract_from_clause calls the ranking service for the clause.
CallsRanking(clause_raw) ==
    Len(PhraseTokens(CleanText(ExpandContractions(clause_raw)))) > 3

(***************************************************************************)
(* Deduplication (lines 201-258).                                          *)
(***************************************************************************)
\* Stage 1 without the tests of lines 208 and 210: a phrase goes when any
\* other phrase of the list, an equal one included, has its words.
DedupContainmentAnyOther(phrases) ==
    LET cleaned == [i \in 1..Len(phrases) |-> Toks(phrases[i])]
        Contained(i) ==
            \E j \in 1..Len(phrases) :
                i # j /\ HasRun(cleaned[j], cleaned[i])
        keep == {i \in 1..Len(phrases) : cleaned[i] # <<>> /\ ~Contained(i)}
        Pick[i \in 0..Len(phrases)] ==
            IF i = 0 THEN <<>>
            ELSE IF i \in keep THEN Append(Pick[i - 1], phrases[i])
            ELSE Pick[i - 1]
    IN  Pick[Len(phrases)]

DedupContainmentStrings(phrases) ==
    LET cleaned == [i \in 1..Len(phrases) |-> Toks(phrases[i])]
        Contained(i) ==
            \E j \in 1..Len(phrases) :
                /\ i # j
                /\ cleaned[i] # cleaned[j]
                /\ StrLen(cleaned[j]) > StrLen(cleaned[i])
                /\ HasRun(cleaned[j], cleaned[i])
        keep == {i \in 1..Len(phrases) : cleaned[i] # <<>> /\ ~Contained(i)}
        Pick[i \in 0..Len(phrases)] ==
            IF i = 0 THEN <<>>
            ELSE IF i \in keep THEN Append(Pick[i - 1], phrases[i])
            ELSE Pick[i - 1]
    IN  Pick[Len(phrases)]

\* score_phrase, in hundredths.
ScorePhrase(p) == StoryQuality(Toks(p)) + 15 * Len(Toks(p))

\* The test of line 236 turned round: overlap > 0.3 goes on to the next.
OverlapsBelow(s, es) ==
    ~(10 * Cardinality(s \cap es)
        > 3 * Max(1, Min(Cardinality(s), Cardinality(es))))

\* not (overlap < 0.3) for two token sets: |s & es| / max(1, min) >= 3/10.
Overlaps(s, es) ==
    ~(10 * Cardinality(s \cap es)
        < 3 * Max(1, Min(Cardinality(s), Cardinality(es))))

RECURSIVE MergeLoopTieReplaces(_, _)
\* The loop of lines 228-247 with >= at line 239: a phrase of the same score
\* takes the place too.
MergeLoopTieReplaces(phrases, kept) ==
    IF phrases = <<>> THEN kept
    ELSE LET p == Head(phrases)
             s == Range(Toks(p))
             hits == {i \in 1..Len(kept) : Overlaps(s, Range(Toks(kept[i])))}
             first == CHOOSE i \in hits : \A j \in hits : i <= j
         IN  IF s = {} THEN MergeLoopTieReplaces(Tail(phrases), kept)
             ELSE IF hits = {}
                  THEN MergeLoopTieReplaces(Tail(phrases), Append(kept, p))
             ELSE IF ScorePhrase(p) >= ScorePhrase(kept[first])
                  THEN MergeLoopTieReplaces(Tail(phrases),
                                            [kept EXCEPT ![first] = p])
                  ELSE MergeLoopTieReplaces(Tail(phrases), kept)

RECURSIVE MergeLoopKeepLower(_, _)
\* The loop of lines 228-247 with the comparison of line 239 turned round:
\* the lower-scoring phrase takes the place.
MergeLoopKeepLower(phrases, kept) ==
    IF phrases = <<>> THEN kept
    ELSE LET p == Head(phrases)
             s == Range(Toks(p))
             hits == {i \in 1..Len(kept) : Overlaps(s, Range(Toks(kept[i])))}
             first == CHOOSE i \in hits : \A j \in hits : i <= j
         IN  IF s = {} THEN MergeLoopKeepLower(Tail(phrases), kept)
             ELSE IF hits = {}
                  THEN MergeLoopKeepLower(Tail(phrases), Append(kept, p))
             ELSE IF ScorePhrase(p) < ScorePhrase(kept[first])
                  THEN MergeLoopKeepLower(Tail(phrases),
                                          [kept EXCEPT ![first] = p])
                  ELSE MergeLoopKeepLower(Tail(phrases), kept)

RECURSIVE MergeLoop(_, _)
\* The loop of lines 228-247; kept_sets[i] is always the token set of
\* kept[i], so it is read off kept.
MergeLoop(phrases, kept) ==
    IF phrases = <<>> THEN kept
    ELSE LET p == Head(phrases)
             s == Range(Toks(p))
             hits == {i \in 1..Len(kept) : Overlaps(s, Range(Toks(kept[i])))}
             first == CHOOSE i \in hits : \A j \in hits : i <= j
         IN  IF s = {} THEN MergeLoop(Tail(phrases), kept)
             ELSE IF hits = {} THEN MergeLoop(Tail(phrases), Append(kept, p))
             ELSE IF ScorePhrase(p) > ScorePhrase(kept[first])
                  THEN MergeLoop(Tail(phrases), [kept EXCEPT ![first] = p])
                  ELSE MergeLoop(Tail(phrases), kept)

\* Stage 3 dropping nothing.
KeepAbsorbed(kept) == kept

\* Lines 249-256: a one-token phrase goes when another kept phrase of two or
\* more tokens has its token.
DropAbsorbed(kept) ==
    LET ts == [i \in 1..Len(kept) |-> Range(Toks(kept[i]))]
        Absorbed(i) ==
            /\ Cardinality(ts[i]) = 1
            /\ \E j \in 1..Len(kept) :
                   i # j /\ ts[i] \subseteq ts[j] /\ Cardinality(ts[j]) >= 2
        Pick[i \in 0..Len(kept)] ==
            IF i = 0 THEN <<>>
            ELSE IF Absorbed(i) THEN Pick[i - 1]
            ELSE Append(Pick[i - 1], kept[i])
    IN  Pick[Len(kept)]

DedupKeepBest(phrases) ==
    DropAbsorbed(MergeLoop(DedupContainmentStrings(phrases), <<>>))

(***************************************************************************)
(* Injection, fill, length filter (lines 260-312).                         *)
(***************************************************************************)
RareTokens(text) ==
    LET toks == PhraseTokens(CleanText(ExpandContractions(text)))
        Count(t) == Cardinality({i \in 1..Len(toks) : toks[i] = t})
    IN  SelectSeq(toks, LAMBDA t :
            Count(t) = 1 /\ Len(t) >= 5 /\ t \notin GENERIC_DROP)

\* The filter of line 310 letting every phrase through.
PhraseLengthFilterOff(phrase) == TRUE

PhraseLengthFilter(phrase) == StrLen(phrase) > 2

\* The emotion words found in the cleaned transcript (line 292), as a set:
\* the list comprehension walks the set EMOTION_WORDS, whose order is not
\* fixed.
PresentEmotions(text) ==
    {w \in EMOTION_WORDS : HasRun(CleanText(ExpandContractions(text)), <<w>>)}

Orders(S) ==
    {f \in [1..Cardinality(S) -> S] :
        \A i, j \in 1..Cardinality(S) : i # j => f[i] # f[j]}

RECURSIVE InsertEmotions(_, _)
\* Lines 293-295, for the words in the order of the walk.
InsertEmotions(order, collected) ==
    IF order = <<>> THEN collected
    ELSE InsertEmotions(Tail(order),
                        IF InList(<<Head(order)>>, collected) THEN collected
                        ELSE <<(<<Head(order)>>)>> \o collected)

RECURSIVE AppendMissing(_, _)
\* Lines 301-303.
AppendMissing(rts, collected) ==
    IF rts = <<>> THEN collected
    ELSE AppendMissing(Tail(rts),
                       IF InList(<<Head(rts)>>, collected) THEN collected
                       ELSE Append(collected, <<Head(rts)>>))

\* collected left in the order it has, the sort of line 307 missing.
KeepOrder(full, collected) == collected

\* Line 307.
SortByAppearance(full, collected) ==
    Values(StableSort([i \in 1..Len(collected) |->
        [k |-> FirstPosOfAnyToken(full, Toks(collected[i])),
         v |-> collected[i]]]))

\* Line 312 slicing from the other end: the last k of collected.
TruncateFromEnd(collected, k) ==
    IF collected # <<>>
    THEN SubSeq(collected, Len(collected) - Min(k, Len(collected)) + 1,
                Len(collected))
    ELSE <<(<<"neutral">>)>>

\* Line 312 without the slice.
TruncateNothing(collected, k) ==
    IF collected # <<>> THEN collected ELSE <<(<<"neutral">>)>>

\* Line 312.
Truncate(collected, k) ==
    IF collected # <<>> THEN SubSeq(collected, 1, Min(k, Len(collected)))
    ELSE <<(<<"neutral">>)>>

(***************************************************************************)
(* Inputs of the model.                                                    *)
(***************************************************************************)
\* Longest transcript of Segments, in segments.
MaxSegments == 3

\* Largest max_k.
MaxK == 2

\* Longest list the ranking service returns.
MaxRanked == 1

\* Longest list given to _dedup_keep_best on its own.
MaxPhrases == 3

\* n of yake.KeywordExtractor(lan="en", n=3, ...).
YakeN == 3

\* Pieces of transcript: a transcript of the first family is a sequence of
\* at most MaxSegments distinct pieces, with a comma between two pieces.
Segments ==
    { <<"um", "then", "Today">>,
      <<Blank>>,
      <<"raining">>,
      <<"it's", "rain">>,
      <<"i", "wanted", "to", "go", "home">>,
      <<"woke", "late", "missed", "alarm">> }

\* Longer transcripts, piece by piece: the second family is every transcript
\* left when pieces of one of them are deleted.
Stories ==
    { << <<"dog", "window">>,
         <<"cat", "piano">>,
         <<"running", "barked", "food">>,
         <<"window", "dog", "barked">>,
         <<"garden", "cat", "food">>,
         <<"yesterday", "tomorrow", "weather", "sleep">> >>,
      << <<"food", "bad">>,
         <<"sad", "cat">>,
         <<"bad", "cat", "dog">> >>,
      << <<"raining">>,
         <<"i", "wanted", "to", "go", "home">>,
         <<"wanted", "badly", "sleeping">> >>,
      << <<"wedding", "next", "day">>,
         <<"go">>,
         <<"home">>,
         <<"before", "lunch">> >> }

\* Long transcripts, piece by piece: the third family is every transcript
\* made of the first pieces of one of them.
Chains ==
    { << <<"food", "ox">>,
         <<"up", "zz">>,
         <<"dog", "pa">>,
         <<"cat", "barked">>,
         <<"bad", "cat", "dog">>,
         <<"food", "bad">>,
         <<"barked", "up">>,
         <<"cat", "barked">>,
         <<"yesterday", "tomorrow", "weather", "sleep">> >> }

DistinctSeqs(S, n) ==
    {f \in [1..n -> S] : \A i, j \in 1..n : i # j => f[i] # f[j]}

\* The elements of s at the positions of keep, in order.
Pick(s, keep) ==
    LET P[i \in 0..Len(s)] ==
            IF i = 0 THEN <<>>
            ELSE IF i \in keep THEN Append(P[i - 1], s[i])
            ELSE P[i - 1]
    IN  P[Len(s)]

RECURSIVE JoinSegments(_)
JoinSegments(ss) ==
    IF ss = <<>> THEN <<>>
    ELSE IF Len(ss) = 1 THEN ss[1]
    ELSE ss[1] \o <<",">> \o JoinSegments(Tail(ss))

Transcripts ==
    {JoinSegments(ss) :
        ss \in (UNION {DistinctSeqs(Segments, n) : n \in 0..MaxSegments})
               \cup (UNION {{Pick(st, keep) : keep \in SUBSET (1..Len(st))} :
                               st \in Stories})
               \cup (UNION {{SubSeq(ch, 1, n) : n \in 0..Len(ch)} :
                               ch \in Chains})}

\* What extract_keywords may return for a cleaned clause: up to MaxRanked
\* pairs of a run of 1..YakeN words of the clause and a score (hundredths).
YakeScores == {2, 300}

NGrams(ws) ==
    {SubSeq(ws, i, j) : i \in 1..Len(ws), j \in 1..Len(ws)}
        \ {s \in {SubSeq(ws, i, j) : i \in 1..Len(ws), j \in 1..Len(ws)} :
              Len(s) = 0 \/ Len(s) > YakeN}

Rankings(ws) ==
    UNION {[1..n -> [phrase : NGrams(ws), score : YakeScores]] :
              n \in 0..MaxRanked}

PhrasePool ==
    { <<"food", "bad">>, <<"sad", "cat">>, <<"bad", "cat", "dog">>,
      <<"sad">>, <<"cat">>, <<"today">>, <<"go", "home">>,
      <<"wanted", "go", "home">>, <<"food", "ox">> }

PhraseLists == UNION {[1..n -> PhrasePool] : n \in 0..MaxPhrases}

Neutral == <<(<<"neutral">>)>>

(***************************************************************************)
(* extract_key_phrases (lines 272-312), one call.                          *)
(***************************************************************************)
VARIABLES
    transcript,     \* the argument transcript
    max_k,          \* the argument max_k (0 until the call reads it)
    pc,             \* where the call is
    full_tokens,    \* line 276
    clauses,        \* line 281
    ci,             \* the clause the loop of line 282 is at
    collected,      \* the list collected
    generated,      \* collected as it is at line 285
    filled,         \* whether the branch of line 300 was taken
    result,         \* the value returned
    phrases,        \* the argument of _dedup_keep_best called on its own
    once,           \* _dedup_keep_best(phrases)
    twice,          \* _dedup_keep_best(once)
    clause_raw,     \* the argument of _extract_from_clause called on its own
    yake_ranked,    \* line 180
    called,         \* whether extract_keywords was called
    candidates,     \* the list candidates after line 197
    returned,       \* the value _extract_from_clause returns
    call,           \* two calls at once: the locals of each
    lists,          \* two calls at once: the list objects bound to collected
    mixed,          \* two calls at once: a call moved while the other ran
    survivors,      \* _dedup_keep_best by stages: what stage 1 returns
    todo,           \* stage 2: the phrases the loop of line 231 has yet to read
    kept,           \* stage 2: the list kept
    final,          \* stage 3: the list final
    raw,            \* the argument of _split_clauses_keep_punct on its own
    parts,          \* what _split_clauses_keep_punct returns
    handler,        \* handle_audio: the locals of each invocation
    files,          \* handle_audio: the files of the working directory
    foreign         \* handle_audio: accesses to a file another invocation wrote

vars == <<transcript, max_k, pc, full_tokens, clauses, ci, collected,
          generated, filled, result, phrases, once, twice,
          clause_raw, yake_ranked, called, candidates, returned,
          call, lists, mixed, survivors, todo, kept, final, raw, parts,
          handler, files, foreign>>

pairVars == <<call, lists, mixed>>

stageVars == <<survivors, todo, kept, final>>

splitVars == <<raw, parts>>

fileVars == <<handler, files, foreign>>

moreVars == <<stageVars, splitVars, fileVars>>

\* No call of _dedup_keep_best by stages.
StageIdle ==
    /\ survivors = <<>>
    /\ todo = <<>>
    /\ kept = <<>>
    /\ final = <<>>

\* No call of _split_clauses_keep_punct on its own.
SplitIdle ==
    /\ raw = <<>>
    /\ parts = <<>>

\* No invocation of handle_audio.
FileIdle ==
    /\ handler = <<>>
    /\ files = <<>>
    /\ foreign = {}

MoreIdle == StageIdle /\ SplitIdle /\ FileIdle

\* No two calls at once.
PairIdle ==
    /\ call = <<>>
    /\ lists = <<>>
    /\ mixed = FALSE

dedupVars == <<phrases, once, twice>>

extractVars == <<clause_raw, yake_ranked, called, candidates, returned>>

\* No call of _extract_from_clause on its own.
ExtractIdle ==
    /\ clause_raw = <<>>
    /\ yake_ranked = <<>>
    /\ called = FALSE
    /\ candidates = <<>>
    /\ returned = <<>>

\* max_k is read by nothing but the return statements, and the model draws
\* it from 1..MaxK where the call returns.
Init ==
    /\ transcript \in Transcripts
    /\ max_k = 0
    /\ pc = "start"
    /\ full_tokens = <<>>
    /\ clauses = <<>>
    /\ ci = 1
    /\ collected = <<>>
    /\ generated = <<>>
    /\ filled = FALSE
    /\ result = <<>>
    /\ phrases = <<>>
    /\ once = <<>>
    /\ twice = <<>>
    /\ ExtractIdle
    /\ PairIdle
    /\ MoreIdle

\* Lines 273-281.
Begin ==
    /\ pc = "start"
    /\ IF \A i \in 1..Len(transcript) : transcript[i] = Blank
       THEN /\ result' = Neutral
            /\ max_k' \in 1..MaxK
            /\ pc' = "done"
            /\ UNCHANGED <<full_tokens, collected, clauses>>
       ELSE /\ full_tokens' = NormalizeTokensForOrder(transcript)
            /\ collected' = StoryRulePhrases(transcript)
            /\ clauses' = SplitClausesKeepPunct(transcript)
            /\ pc' = "clauses"
            /\ UNCHANGED <<result, max_k>>
    /\ UNCHANGED <<transcript, ci, generated, filled, dedupVars, extractVars, pairVars, moreVars>>

\* Lines 282-283 for a clause of at most 3 tokens: no ranking.
ExtractShort ==
    /\ pc = "clauses"
    /\ ci <= Len(clauses)
    /\ ~CallsRanking(clauses[ci])
    /\ collected' = collected \o ExtractFromClause(clauses[ci], <<>>)
    /\ ci' = ci + 1
    /\ UNCHANGED <<transcript, max_k, pc, full_tokens, clauses, generated,
                   filled, result, dedupVars, extractVars, pairVars, moreVars>>

\* Lines 282-283 for a longer clause, the ranking service answering.
ExtractRanked ==
    /\ pc = "clauses"
    /\ ci <= Len(clauses)
    /\ CallsRanking(clauses[ci])
    /\ \E ranked \in Rankings(CleanText(ExpandContractions(clauses[ci]))) :
           collected' = collected \o ExtractFromClause(clauses[ci], ranked)
    /\ ci' = ci + 1
    /\ UNCHANGED <<transcript, max_k, pc, full_tokens, clauses, generated,
                   filled, result, dedupVars, extractVars, pairVars, moreVars>>

\* Line 180 raising: nothing catches it, in _extract_from_clause or in
\* extract_key_phrases, so the call ends with the exception.
RankingRaises ==
    /\ pc = "clauses"
    /\ ci <= Len(clauses)
    /\ CallsRanking(clauses[ci])
    /\ pc' = "raised"
    /\ UNCHANGED <<transcript, max_k, full_tokens, clauses, ci, collected,
                   generated, filled, result, dedupVars, extractVars, pairVars, moreVars>>

\* Lines 285-288.
FirstDedup ==
    /\ pc = "clauses"
    /\ ci > Len(clauses)
    /\ generated' = collected
    /\ IF collected = <<>>
       THEN /\ result' = Neutral
            /\ max_k' \in 1..MaxK
            /\ pc' = "done"
            /\ UNCHANGED collected
       ELSE /\ collected' = DedupKeepBest(collected)
            /\ pc' = "inject"
            /\ UNCHANGED <<result, max_k>>
    /\ UNCHANGED <<transcript, full_tokens, clauses, ci, filled, dedupVars, extractVars, pairVars, moreVars>>

\* Lines 291-297.
Inject ==
    /\ pc = "inject"
    /\ \E order \in Orders(PresentEmotions(transcript)) :
           collected' = DedupKeepBest(InsertEmotions(order, collected))
    /\ pc' = "fill"
    /\ UNCHANGED <<transcript, max_k, full_tokens, clauses, ci, generated,
                   filled, result, dedupVars, extractVars, pairVars, moreVars>>

\* Lines 301-304 run whatever the length of collected is.
FillAlways ==
    /\ pc = "fill"
    /\ collected' =
           DedupKeepBest(AppendMissing(RareTokens(transcript), collected))
    /\ filled' = TRUE
    /\ pc' = "order"
    /\ UNCHANGED <<transcript, max_k, full_tokens, clauses, ci, generated,
                   result, dedupVars, extractVars, pairVars, moreVars>>

\* Lines 300-304.
Fill ==
    /\ pc = "fill"
    /\ IF Len(collected) < RARE_TOKEN_FILL_THRESHOLD
       THEN /\ collected' =
                  DedupKeepBest(AppendMissing(RareTokens(transcript),
                                              collected))
            /\ filled' = TRUE
       ELSE UNCHANGED <<collected, filled>>
    /\ pc' = "order"
    /\ UNCHANGED <<transcript, max_k, full_tokens, clauses, ci, generated,
                   result, dedupVars, extractVars, pairVars, moreVars>>

\* Line 307.
Order ==
    /\ pc = "order"
    /\ collected' = SortByAppearance(full_tokens, collected)
    /\ pc' = "return"
    /\ UNCHANGED <<transcript, max_k, full_tokens, clauses, ci, generated,
                   filled, result, dedupVars, extractVars, pairVars, moreVars>>

\* Lines 310-312.
Return ==
    /\ pc = "return"
    /\ max_k' \in 1..MaxK
    /\ collected' = SelectSeq(collected, PhraseLengthFilter)
    /\ result' = Truncate(SelectSeq(collected, PhraseLengthFilter), max_k')
    /\ pc' = "done"
    /\ UNCHANGED <<transcript, full_tokens, clauses, ci, generated, filled,
                   dedupVars, extractVars, pairVars, moreVars>>

Next ==
    \/ Begin
    \/ ExtractShort
    \/ ExtractRanked
    \/ RankingRaises
    \/ FirstDedup
    \/ Inject
    \/ Fill
    \/ Order
    \/ Return

Spec == Init /\ [][Next]_vars

(***************************************************************************)
(* _dedup_keep_best on its own, applied to a list and to its own output.   *)
(***************************************************************************)
callVars == <<transcript, max_k, full_tokens, clauses, ci, collected,
              generated, filled, result>>

InitDedup ==
    /\ phrases \in PhraseLists
    /\ once = <<>>
    /\ twice = <<>>
    /\ pc = "dedup"
    /\ transcript = <<>>
    /\ max_k = 0
    /\ full_tokens = <<>>
    /\ clauses = <<>>
    /\ ci = 1
    /\ collected = <<>>
    /\ generated = <<>>
    /\ filled = FALSE
    /\ result = <<>>
    /\ ExtractIdle
    /\ PairIdle
    /\ MoreIdle

DedupOnce ==
    /\ pc = "dedup"
    /\ once' = DedupKeepBest(phrases)
    /\ pc' = "once"
    /\ UNCHANGED <<phrases, twice, callVars, extractVars, pairVars, moreVars>>

DedupAgain ==
    /\ pc = "once"
    /\ twice' = DedupKeepBest(once)
    /\ pc' = "twice"
    /\ UNCHANGED <<phrases, once, callVars, extractVars, pairVars, moreVars>>

NextDedup == DedupOnce \/ DedupAgain

SpecDedup == InitDedup /\ [][NextDedup]_vars

(***************************************************************************)
(* _extract_from_clause (lines 170-198) on its own.                        *)
(***************************************************************************)
\* Longest list the ranking service returns to _extract_from_clause called
\* on its own.
MaxOffers == 5

\* Clauses given to _extract_from_clause: of 0, 1, 1, 3 and 5 filtered
\* tokens.
ExtractClauses ==
    { <<"um">>,
      <<"raining">>,
      <<"it", "is", "rain">>,
      <<"i", "wanted", "to", "go", "home">>,
      <<"woke", "late", "not", "happy", "missed", "alarm">> }

\* Pairs the ranking service may return for the last clause: runs of at most
\* YakeN of its words, each with a score.
Offers ==
    { [phrase |-> <<"missed", "alarm">>, score |-> 2],
      [phrase |-> <<"woke", "late">>, score |-> 2],
      [phrase |-> <<"not", "happy", "missed">>, score |-> 2],
      [phrase |-> <<"happy", "missed", "alarm">>, score |-> 2],
      [phrase |-> <<"woke">>, score |-> 2],
      [phrase |-> <<"late", "missed">>, score |-> 300],
      [phrase |-> <<"happy", "missed">>, score |-> 2] }

\* What extract_keywords returns: up to MaxOffers pairs, no pair twice.
OfferLists == UNION {DistinctSeqs(Offers, n) : n \in 0..MaxOffers}

InitExtract ==
    /\ clause_raw \in ExtractClauses
    /\ yake_ranked = <<>>
    /\ called = FALSE
    /\ candidates = <<>>
    /\ returned = <<>>
    /\ pc = "clause"
    /\ transcript = <<>>
    /\ max_k = 0
    /\ full_tokens = <<>>
    /\ clauses = <<>>
    /\ ci = 1
    /\ collected = <<>>
    /\ generated = <<>>
    /\ filled = FALSE
    /\ result = <<>>
    /\ phrases = <<>>
    /\ once = <<>>
    /\ twice = <<>>
    /\ PairIdle
    /\ MoreIdle

\* Lines 171-179: a clause of at most 3 tokens returns at once, a longer one
\* goes to the ranking service.
ExtractStart ==
    /\ pc = "clause"
    /\ IF CallsRanking(clause_raw)
       THEN /\ called' = TRUE
            /\ pc' = "ranking"
            /\ UNCHANGED returned
       ELSE /\ returned' = ExtractFromClause(clause_raw, <<>>)
            /\ pc' = "extracted"
            /\ UNCHANGED called
    /\ UNCHANGED <<clause_raw, yake_ranked, candidates, callVars, dedupVars, pairVars, moreVars>>

\* Lines 180-198, the ranking service answering.
ExtractFinish ==
    /\ pc = "ranking"
    /\ \E ranked \in OfferLists :
           /\ yake_ranked' = ranked
           /\ candidates' = SortedCandidates(ranked)
           /\ returned' = ExtractFromClause(clause_raw, ranked)
    /\ pc' = "extracted"
    /\ UNCHANGED <<clause_raw, called, callVars, dedupVars, pairVars, moreVars>>

NextExtract == ExtractStart \/ ExtractFinish

SpecExtract == InitExtract /\ [][NextExtract]_vars

(***************************************************************************)
(* extract_key_phrases as a function, and two calls of it at once.         *)
(***************************************************************************)
RECURSIVE CollectClauses(_, _)
\* The loop of lines 282-283: what the clauses cls add to collected, when
\* responses are the answers of the ranking service in the order it is
\* called.
CollectClauses(cls, responses) ==
    IF cls = <<>> THEN <<>>
    ELSE IF CallsRanking(Head(cls))
         THEN ExtractFromClause(Head(cls), Head(responses))
                  \o CollectClauses(Tail(cls), Tail(responses))
         ELSE ExtractFromClause(Head(cls), <<>>)
                  \o CollectClauses(Tail(cls), responses)

\* extract_key_phrases(text, k) for a call in which the ranking service
\* answers responses and the walk of line 292 goes in the order given.
ExtractKeyPhrases(text, k, responses, order) ==
    LET gen == StoryRulePhrases(text)
                   \o CollectClauses(SplitClausesKeepPunct(text), responses)
        first == DedupKeepBest(gen)
        second == DedupKeepBest(InsertEmotions(order, first))
        third == IF Len(second) < RARE_TOKEN_FILL_THRESHOLD
                 THEN DedupKeepBest(AppendMissing(RareTokens(text), second))
                 ELSE second
        sorted == SortByAppearance(NormalizeTokensForOrder(text), third)
    IN  IF \A i \in 1..Len(text) : text[i] = Blank THEN Neutral
        ELSE IF gen = <<>> THEN Neutral
        ELSE Truncate(SelectSeq(sorted, PhraseLengthFilter), k)

Callers == {1, 2}

\* The list object a call binds to its local collected (line 278 and every
\* later assignment): its own.
SharedList(i) == 1

ListOf(i) == i

\* The transcripts of two calls at once.
PairTranscripts ==
    { <<"sad", "happy", "cat", "dog", ",", "food">>,
      <<"food", "bad", ",", "sad", "cat", ",", "bad", "cat", "dog">>,
      <<"raining">>,
      <<Blank>> }

\* What the ranking service answers for a cleaned clause when two calls run
\* at once: nothing, or its first two words.
PairRankings(ws) ==
    { <<>>, <<[phrase |-> SubSeq(ws, 1, 2), score |-> 2]>> }

InitTwo ==
    /\ call \in [Callers -> [transcript : PairTranscripts, max_k : {0},
                              pc : {"start"}, full_tokens : {<<>>},
                              clauses : {<<>>}, ci : {1},
                              responses : {<<>>}, order : {<<>>},
                              result : {<<>>}]]
    /\ lists = [i \in Callers |-> <<>>]
    /\ mixed = FALSE
    /\ pc = "two"
    /\ transcript = <<>>
    /\ max_k = 0
    /\ full_tokens = <<>>
    /\ clauses = <<>>
    /\ ci = 1
    /\ collected = <<>>
    /\ generated = <<>>
    /\ filled = FALSE
    /\ result = <<>>
    /\ phrases = <<>>
    /\ once = <<>>
    /\ twice = <<>>
    /\ ExtractIdle
    /\ MoreIdle

\* The other call is between its first and its last step.
OtherRuns(i) ==
    \E j \in Callers : j # i /\ call[j].pc \notin {"start", "done"}

\* What every step of call i does to the rest of the state.
Moves(i) ==
    /\ mixed' = (mixed \/ OtherRuns(i))
    /\ UNCHANGED <<pc, callVars, dedupVars, extractVars, moreVars>>

\* Lines 273-281 in call i.
TwoBegin(i) ==
    /\ call[i].pc = "start"
    /\ IF \A n \in 1..Len(call[i].transcript) : call[i].transcript[n] = Blank
       THEN /\ \E k \in 1..MaxK :
                   call' = [call EXCEPT ![i].result = Neutral,
                                        ![i].max_k = k,
                                        ![i].pc = "done"]
            /\ UNCHANGED lists
       ELSE /\ call' = [call EXCEPT
                   ![i].full_tokens = NormalizeTokensForOrder(call[i].transcript),
                   ![i].clauses = SplitClausesKeepPunct(call[i].transcript),
                   ![i].pc = "clauses"]
            /\ lists' = [lists EXCEPT
                   ![ListOf(i)] = StoryRulePhrases(call[i].transcript)]
    /\ Moves(i)

\* Lines 282-283 in call i, for one clause.
TwoClause(i) ==
    /\ call[i].pc = "clauses"
    /\ call[i].ci <= Len(call[i].clauses)
    /\ LET c == call[i].clauses[call[i].ci]
       IN  IF CallsRanking(c)
           THEN \E ranked \in PairRankings(CleanText(ExpandContractions(c))) :
                    /\ lists' = [lists EXCEPT ![ListOf(i)] =
                                     @ \o ExtractFromClause(c, ranked)]
                    /\ call' = [call EXCEPT
                                    ![i].responses = Append(@, ranked),
                                    ![i].ci = @ + 1]
           ELSE /\ lists' = [lists EXCEPT ![ListOf(i)] =
                                 @ \o ExtractFromClause(c, <<>>)]
                /\ call' = [call EXCEPT ![i].ci = @ + 1]
    /\ Moves(i)

\* Lines 285-288 in call i.
TwoFirstDedup(i) ==
    /\ call[i].pc = "clauses"
    /\ call[i].ci > Len(call[i].clauses)
    /\ IF lists[ListOf(i)] = <<>>
       THEN /\ \E k \in 1..MaxK :
                   call' = [call EXCEPT ![i].result = Neutral,
                                        ![i].max_k = k,
                                        ![i].pc = "done"]
            /\ UNCHANGED lists
       ELSE /\ lists' = [lists EXCEPT ![ListOf(i)] = DedupKeepBest(@)]
            /\ call' = [call EXCEPT ![i].pc = "inject"]
    /\ Moves(i)

\* Lines 291-297 in call i.
TwoInject(i) ==
    /\ call[i].pc = "inject"
    /\ \E order \in Orders(PresentEmotions(call[i].transcript)) :
           /\ lists' = [lists EXCEPT ![ListOf(i)] =
                            DedupKeepBest(InsertEmotions(order, @))]
           /\ call' = [call EXCEPT ![i].order = order, ![i].pc = "fill"]
    /\ Moves(i)

\* Lines 300-304 in call i.
TwoFill(i) ==
    /\ call[i].pc = "fill"
    /\ IF Len(lists[ListOf(i)]) < RARE_TOKEN_FILL_THRESHOLD
       THEN lists' = [lists EXCEPT ![ListOf(i)] =
                DedupKeepBest(AppendMissing(RareTokens(call[i].transcript), @))]
       ELSE UNCHANGED lists
    /\ call' = [call EXCEPT ![i].pc = "order"]
    /\ Moves(i)

\* Line 307 in call i.
TwoOrder(i) ==
    /\ call[i].pc = "order"
    /\ lists' = [lists EXCEPT ![ListOf(i)] =
                     SortByAppearance(call[i].full_tokens, @)]
    /\ call' = [call EXCEPT ![i].pc = "return"]
    /\ Moves(i)

\* Lines 310-312 in call i.
TwoReturn(i) ==
    /\ call[i].pc = "return"
    /\ lists' = [lists EXCEPT ![ListOf(i)] = SelectSeq(@, PhraseLengthFilter)]
    /\ \E k \in 1..MaxK :
           call' = [call EXCEPT
               ![i].max_k = k,
               ![i].result =
                   Truncate(SelectSeq(lists[ListOf(i)], PhraseLengthFilter), k),
               ![i].pc = "done"]
    /\ Moves(i)

NextTwo ==
    \/ \E i \in Callers : TwoBegin(i)
    \/ \E i \in Callers : TwoClause(i)
    \/ \E i \in Callers : TwoFirstDedup(i)
    \/ \E i \in Callers : TwoInject(i)
    \/ \E i \in Callers : TwoFill(i)
    \/ \E i \in Callers : TwoOrder(i)
    \/ \E i \in Callers : TwoReturn(i)

SpecTwo == InitTwo /\ [][NextTwo]_vars

(***************************************************************************)
(* _dedup_keep_best (lines 218-258) stage by stage.                        *)
(***************************************************************************)
\* No call of extract_key_phrases, of _dedup_keep_best as a whole, of
\* _extract_from_clause, and no two calls at once.
RestIdle ==
    /\ transcript = <<>>
    /\ max_k = 0
    /\ full_tokens = <<>>
    /\ clauses = <<>>
    /\ ci = 1
    /\ collected = <<>>
    /\ generated = <<>>
    /\ filled = FALSE
    /\ result = <<>>
    /\ once = <<>>
    /\ twice = <<>>
    /\ ExtractIdle
    /\ PairIdle

restVars == <<callVars, once, twice, extractVars, pairVars>>

\* The phrases of the lists given to _dedup_keep_best stage by stage.
StagePool ==
    { <<"food", "bad">>, <<"bad", "food">>, <<"bad", "cat", "dog">>,
      <<"cat", "cat">>, <<"cat">>, <<"cat", "dog">>, <<"sad", "cat">>,
      <<"today">> }

StageLists == UNION {[1..n -> StagePool] : n \in 0..MaxPhrases}

InitStages ==
    /\ phrases \in StageLists
    /\ pc = "stage1"
    /\ StageIdle
    /\ RestIdle
    /\ SplitIdle
    /\ FileIdle

\* Lines 222-229: stage 1, and the empty lists kept and kept_sets.
StageOne ==
    /\ pc = "stage1"
    /\ survivors' = DedupContainmentStrings(phrases)
    /\ todo' = DedupContainmentStrings(phrases)
    /\ kept' = <<>>
    /\ pc' = "stage2"
    /\ UNCHANGED <<phrases, final, restVars, splitVars, fileVars>>

\* Lines 231-247 for one phrase p of the loop.
StageTwoStep ==
    /\ pc = "stage2"
    /\ todo # <<>>
    /\ kept' = MergeLoop(<<Head(todo)>>, kept)
    /\ todo' = Tail(todo)
    /\ UNCHANGED <<phrases, pc, survivors, final, restVars, splitVars,
                   fileVars>>

\* Lines 249-258: stage 3 and the return.
StageThree ==
    /\ pc = "stage2"
    /\ todo = <<>>
    /\ final' = DropAbsorbed(kept)
    /\ pc' = "deduped"
    /\ UNCHANGED <<phrases, survivors, todo, kept, restVars, splitVars,
                   fileVars>>

NextStages == StageOne \/ StageTwoStep \/ StageThree

SpecStages == InitStages /\ [][NextStages]_vars

(***************************************************************************)
(* _split_clauses_keep_punct (lines 89-93) on its own.                     *)
(***************************************************************************)
\* The texts given to _split_clauses_keep_punct: the transcripts, and texts
\* that are empty, blank, or have whitespace at their ends or inside.
SplitTexts ==
    Transcripts
        \cup { <<>>,
               <<Blank, Blank>>,
               <<Blank, "It's", "rain">>,
               <<"raining", Blank>>,
               <<Blank, "woke", Blank, "late", Blank>>,
               <<"Today", "and", "then", "raining">>,
               <<Blank, "So", "raining", "!", "?", Blank>> }

InitSplit ==
    /\ raw \in SplitTexts
    /\ parts = <<>>
    /\ pc = "split"
    /\ phrases = <<>>
    /\ RestIdle
    /\ StageIdle
    /\ FileIdle

Split ==
    /\ pc = "split"
    /\ parts' = SplitClausesKeepPunct(raw)
    /\ pc' = "clauses"
    /\ UNCHANGED <<raw, phrases, restVars, stageVars, fileVars>>

NextSplit == Split

SpecSplit == InitSplit /\ [][NextSplit]_vars

(***************************************************************************)
(* handle_audio (src/main.py lines 28-122) and the temporary files of      *)
(* keyword_to_audio (src/soundbite_generator.py lines 299-319, 412-428):   *)
(* invocations running at once in one working directory.                   *)
(***************************************************************************)
\* Most sounds one invocation downloads.
MaxTries == 1

\* The invocations of handle_audio running at once.
Handlers == {"first", "second"}

\* The file_id of a message; two messages may carry the same one.
FileIds == {"x", "y"}

\* sound['id'] of the Freesound sounds an invocation may select.
SoundIds == {"s"}

\* None, where a name may be (a name is a tuple of its parts).
None == <<>>

\* No file of that name.
Absent == "absent"

\* main.py line 43.
OggPath(file_id) == <<"temp_", file_id, ".ogg">>

\* main.py line 44.
WavPath(file_id) == <<"temp_", file_id, ".wav">>

\* main.py line 65.
SoundbitePath(file_id) == <<"soundbite_", file_id, ".ogg">>

\* soundbite_generator.py line 309.
FreesoundPath(id) == <<"tmp_freesound_", id, ".mp3">>

Paths ==
    {OggPath(f) : f \in FileIds} \cup {WavPath(f) : f \in FileIds}
        \cup {SoundbitePath(f) : f \in FileIds}
        \cup {FreesoundPath(n) : n \in SoundIds}

\* The list of main.py line 116 without soundbite_path.
CleanupPathsNoSoundbite(i) == <<handler[i].ogg_path, handler[i].wav_path>>

\* The list of main.py line 116.
CleanupPaths(i) ==
    <<handler[i].ogg_path, handler[i].wav_path, handler[i].soundbite_path>>

\* files maps a name to the invocation that wrote the file last, or Absent;
\* handler[i] has the locals of invocation i, fi the place of the loop of
\* line 116, and what the loop did: the paths it found (seen), those it
\* called os.remove on (attempted), and whether a removal raised with the
\* file still there (failed).  The first invocation has the file_id "x".
InitFiles ==
    /\ handler \in [Handlers ->
           [pc : {"start"}, file_id : FileIds, ogg_path : {None},
            wav_path : {None}, soundbite_path : {None}, result : {None},
            filepath : {None}, tries : {0}, fi : {1}, seen : {{}},
            attempted : {{}}, failed : {FALSE}, reraised : {FALSE}]]
    /\ handler["first"].file_id = "x"
    /\ files = [path \in Paths |-> Absent]
    /\ foreign = {}
    /\ pc = "files"
    /\ phrases = <<>>
    /\ RestIdle
    /\ StageIdle
    /\ SplitIdle

\* What every step of an invocation leaves alone.
FilesFrame == UNCHANGED <<pc, phrases, restVars, stageVars, splitVars>>

\* foreign after invocation i does kind to path: the access is recorded when
\* the file is there and another invocation wrote it.
Touched(i, path, kind) ==
    IF files[path] \notin {Absent, i} THEN foreign \cup {kind} ELSE foreign

\* Lines 38-44: the download from Telegram, which may raise, and the names.
Download(i) ==
    /\ handler[i].pc = "start"
    /\ \/ handler' = [handler EXCEPT
                         ![i].ogg_path = OggPath(handler[i].file_id),
                         ![i].wav_path = WavPath(handler[i].file_id),
                         ![i].pc = "write"]
       \/ handler' = [handler EXCEPT ![i].pc = "except"]
    /\ UNCHANGED <<files, foreign>>
    /\ FilesFrame

\* Lines 46-47: open(ogg_path, 'wb') creates the file or empties it.
WriteOgg(i) ==
    /\ handler[i].pc = "write"
    /\ \/ /\ files' = [files EXCEPT ![handler[i].ogg_path] = i]
          /\ foreign' = Touched(i, handler[i].ogg_path, "overwrite")
          /\ handler' = [handler EXCEPT ![i].pc = "decode"]
       \/ /\ handler' = [handler EXCEPT ![i].pc = "except"]
          /\ UNCHANGED <<files, foreign>>
    /\ FilesFrame

\* Line 49: AudioSegment.from_file(ogg_path) reads the file, and raises when
\* it is gone or is not audio.
Decode(i) ==
    /\ handler[i].pc = "decode"
    /\ IF files[handler[i].ogg_path] = Absent
       THEN /\ handler' = [handler EXCEPT ![i].pc = "except"]
            /\ UNCHANGED foreign
       ELSE /\ foreign' = Touched(i, handler[i].ogg_path, "read")
            /\ \/ handler' = [handler EXCEPT ![i].pc = "export"]
               \/ handler' = [handler EXCEPT ![i].pc = "except"]
    /\ UNCHANGED files
    /\ FilesFrame

\* Line 50: audio.export(wav_path) writes the file.
ExportWav(i) ==
    /\ handler[i].pc = "export"
    /\ files' = [files EXCEPT ![handler[i].wav_path] = i]
    /\ foreign' = Touched(i, handler[i].wav_path, "overwrite")
    /\ handler' = [handler EXCEPT ![i].pc = "transcribe"]
    /\ FilesFrame

\* Lines 53-62: sr.AudioFile(wav_path) reads the file; the recognizer
\* answers, raises UnknownValueError, or raises something else.
Transcribe(i) ==
    /\ handler[i].pc = "transcribe"
    /\ IF files[handler[i].wav_path] = Absent
       THEN /\ handler' = [handler EXCEPT ![i].pc = "except"]
            /\ UNCHANGED foreign
       ELSE /\ foreign' = Touched(i, handler[i].wav_path, "read")
            /\ \E to \in {"soundbite", "unknown", "except"} :
                   handler' = [handler EXCEPT ![i].pc = to]
    /\ UNCHANGED files
    /\ FilesFrame

\* Line 65, and transcript_to_soundbite up to its loop (line 502).
NameSoundbite(i) ==
    /\ handler[i].pc = "soundbite"
    /\ handler' = [handler EXCEPT
                      ![i].soundbite_path = SoundbitePath(handler[i].file_id),
                      ![i].pc = "keywords"]
    /\ UNCHANGED <<files, foreign>>
    /\ FilesFrame

\* download_sound (soundbite_generator.py lines 299-315) for a sound the
\* search returned: the file is written and its name returned.
DownloadSound(i) ==
    /\ handler[i].pc = "keywords"
    /\ handler[i].tries < MaxTries
    /\ \E id \in SoundIds :
           /\ files' = [files EXCEPT ![FreesoundPath(id)] = i]
           /\ foreign' = Touched(i, FreesoundPath(id), "overwrite")
           /\ handler' = [handler EXCEPT ![i].filepath = FreesoundPath(id),
                                         ![i].tries = @ + 1,
                                         ![i].pc = "process"]
    /\ FilesFrame

\* download_sound raising while it writes (lines 311-313, 317-319): the file
\* is there, None is returned and the loop of line 413 goes on.
DownloadSoundFails(i) ==
    /\ handler[i].pc = "keywords"
    /\ handler[i].tries < MaxTries
    /\ \E id \in SoundIds :
           /\ files' = [files EXCEPT ![FreesoundPath(id)] = i]
           /\ foreign' = Touched(i, FreesoundPath(id), "overwrite")
    /\ handler' = [handler EXCEPT ![i].tries = @ + 1]
    /\ FilesFrame

\* process_sound (lines 322-338, called at line 418) reads the file; what it
\* raises it catches.
ProcessSound(i) ==
    /\ handler[i].pc = "process"
    /\ foreign' = IF files[handler[i].filepath] = Absent THEN foreign
                  ELSE Touched(i, handler[i].filepath, "read")
    /\ handler' = [handler EXCEPT ![i].pc = "cleanup"]
    /\ UNCHANGED files
    /\ FilesFrame

\* soundbite_generator.py line 421; filepath is a local of keyword_to_audio
\* and goes when it returns.
CleanupCheck(i) ==
    /\ handler[i].pc = "cleanup"
    /\ IF files[handler[i].filepath] = Absent
       THEN handler' = [handler EXCEPT ![i].filepath = None,
                                       ![i].pc = "keywords"]
       ELSE handler' = [handler EXCEPT ![i].pc = "unlink"]
    /\ UNCHANGED <<files, foreign>>
    /\ FilesFrame

\* soundbite_generator.py line 422: os.remove(filepath) outside any try; if
\* the file went after the test of line 421 the exception reaches
\* handle_audio.
CleanupRemove(i) ==
    /\ handler[i].pc = "unlink"
    /\ IF files[handler[i].filepath] = Absent
       THEN /\ handler' = [handler EXCEPT ![i].filepath = None,
                                          ![i].pc = "except"]
            /\ UNCHANGED <<files, foreign>>
       ELSE /\ files' = [files EXCEPT ![handler[i].filepath] = Absent]
            /\ foreign' = Touched(i, handler[i].filepath, "delete")
            /\ handler' = [handler EXCEPT ![i].filepath = None,
                                          ![i].pc = "keywords"]
    /\ FilesFrame

\* soundbite_generator.py lines 511-529: no audio and None, or the export to
\* output_file; or an exception that transcript_to_soundbite lets through
\* (extract_key_phrases at line 456, the export).
ExportSoundbite(i) ==
    /\ handler[i].pc = "keywords"
    /\ \/ /\ \E to \in {"respond", "except"} :
                 handler' = [handler EXCEPT ![i].pc = to]
          /\ UNCHANGED <<files, foreign>>
       \/ /\ files' = [files EXCEPT ![handler[i].soundbite_path] = i]
          /\ foreign' = Touched(i, handler[i].soundbite_path, "overwrite")
          /\ handler' = [handler EXCEPT
                            ![i].result = handler[i].soundbite_path,
                            ![i].pc = "respond"]
    /\ FilesFrame

\* main.py line 71, and lines 89-96 when the test fails.
Respond(i) ==
    /\ handler[i].pc = "respond"
    /\ IF handler[i].result # None
          /\ files[handler[i].soundbite_path] # Absent
       THEN handler' = [handler EXCEPT ![i].pc = "send"]
       ELSE \E to \in {"finally", "except"} :
                handler' = [handler EXCEPT ![i].pc = to]
    /\ UNCHANGED <<files, foreign>>
    /\ FilesFrame

\* main.py lines 73-87: the soundbite is opened and sent.
Send(i) ==
    /\ handler[i].pc = "send"
    /\ IF files[handler[i].soundbite_path] = Absent
       THEN /\ handler' = [handler EXCEPT ![i].pc = "except"]
            /\ UNCHANGED foreign
       ELSE /\ foreign' = Touched(i, handler[i].soundbite_path, "read")
            /\ \E to \in {"finally", "except"} :
                   handler' = [handler EXCEPT ![i].pc = to]
    /\ UNCHANGED files
    /\ FilesFrame

\* main.py lines 98-101; the calls of the handler may raise, and then the
\* finally clause runs before the exception leaves handle_audio.
HandleUnknownValue(i) ==
    /\ handler[i].pc = "unknown"
    /\ \E r \in BOOLEAN :
           handler' = [handler EXCEPT ![i].reraised = r, ![i].pc = "finally"]
    /\ UNCHANGED <<files, foreign>>
    /\ FilesFrame

\* main.py lines 102-112; bot.reply_to at line 112 may raise.
HandleException(i) ==
    /\ handler[i].pc = "except"
    /\ \E r \in BOOLEAN :
           handler' = [handler EXCEPT ![i].reraised = r, ![i].pc = "finally"]
    /\ UNCHANGED <<files, foreign>>
    /\ FilesFrame

\* main.py lines 116-117 for the next path of the list.
FinallyCheck(i) ==
    /\ handler[i].pc = "finally"
    /\ handler[i].fi <= Len(CleanupPaths(i))
    /\ LET path == CleanupPaths(i)[handler[i].fi]
       IN  IF path # None /\ files[path] # Absent
           THEN handler' = [handler EXCEPT ![i].seen = @ \cup {path},
                                           ![i].pc = "remove"]
           ELSE handler' = [handler EXCEPT ![i].fi = @ + 1]
    /\ UNCHANGED <<files, foreign>>
    /\ FilesFrame

\* main.py lines 118-122: os.remove(path) removes the file, or raises and
\* the exception is printed.
FinallyRemove(i) ==
    /\ handler[i].pc = "remove"
    /\ LET path == CleanupPaths(i)[handler[i].fi]
       IN  IF files[path] = Absent
           THEN /\ handler' = [handler EXCEPT ![i].attempted = @ \cup {path},
                                              ![i].fi = @ + 1,
                                              ![i].pc = "finally"]
                /\ UNCHANGED <<files, foreign>>
           ELSE \/ /\ files' = [files EXCEPT ![path] = Absent]
                   /\ foreign' = Touched(i, path, "delete")
                   /\ handler' = [handler EXCEPT
                                     ![i].attempted = @ \cup {path},
                                     ![i].fi = @ + 1,
                                     ![i].pc = "finally"]
                \/ /\ handler' = [handler EXCEPT
                                     ![i].attempted = @ \cup {path},
                                     ![i].failed = TRUE,
                                     ![i].fi = @ + 1,
                                     ![i].pc = "finally"]
                   /\ UNCHANGED <<files, foreign>>
    /\ FilesFrame

\* The end of the loop of line 116: handle_audio returns, or the exception
\* of its handler leaves it, and its locals are no more.
Finish(i) ==
    /\ handler[i].pc = "finally"
    /\ handler[i].fi > Len(CleanupPaths(i))
    /\ handler' = [handler EXCEPT ![i] =
           [pc |-> "done", file_id |-> handler[i].file_id, ogg_path |-> None,
            wav_path |-> None, soundbite_path |-> None, result |-> None,
            filepath |-> None, tries |-> 0, fi |-> 1, seen |-> {},
            attempted |-> {}, failed |-> FALSE, reraised |-> FALSE]]
    /\ UNCHANGED <<files, foreign>>
    /\ FilesFrame

NextFiles ==
    \/ \E i \in Handlers : Download(i)
    \/ \E i \in Handlers : WriteOgg(i)
    \/ \E i \in Handlers : Decode(i)
    \/ \E i \in Handlers : ExportWav(i)
    \/ \E i \in Handlers : Transcribe(i)
    \/ \E i \in Handlers : NameSoundbite(i)
    \/ \E i \in Handlers : DownloadSound(i)
    \/ \E i \in Handlers : DownloadSoundFails(i)
    \/ \E i \in Handlers : ProcessSound(i)
    \/ \E i \in Handlers : CleanupCheck(i)
    \/ \E i \in Handlers : CleanupRemove(i)
    \/ \E i \in Handlers : ExportSoundbite(i)
    \/ \E i \in Handlers : Respond(i)
    \/ \E i \in Handlers : Send(i)
    \/ \E i \in Handlers : HandleUnknownValue(i)
    \/ \E i \in Handlers : HandleException(i)
    \/ \E i \in Handlers : FinallyCheck(i)
    \/ \E i \in Handlers : FinallyRemove(i)
    \/ \E i \in Handlers : Finish(i)

SpecFiles == InitFiles /\ [][NextFiles]_vars

(***************************************************************************)
(* Properties.                                                             *)
(***************************************************************************)
\* The words of the transcript as the pipeline reads them.
CleanWords == CleanText(ExpandContractions(transcript))

\* Two phrases whose token sets A and B have |A & B| / min(|A|, |B|) >= 0.3.
NearDuplicate(a, b) ==
    LET A == Range(Toks(a))
        B == Range(Toks(b))
    IN  /\ A # {}
        /\ B # {}
        /\ 10 * Cardinality(A \cap B) >= 3 * Min(Cardinality(A), Cardinality(B))

\* No two elements of the list are near duplicates.
NoNearDuplicates(list) ==
    \A i, j \in 1..Len(list) : i # j => ~NearDuplicate(list[i], list[j])

\* The list has a beat that is, or includes, the words ws.
Carried(list, ws) == \E i \in 1..Len(list) : HasRun(list[i], ws)

\* max_k is large enough: truncation cut nothing.
NothingCut == Len(collected) <= max_k

\* C1: every call that returns gives a list of at least 1 and at most max_k
\* phrases.
C1_BoundedOutput ==
    pc = "done" => (Len(result) >= 1 /\ Len(result) <= max_k)

\* A call returned max_k beats out of more.
C1_Witness ==
    pc = "done" /\ Len(collected) > max_k /\ Len(result) = max_k

\* Every item of the transcript is whitespace, punctuation, a filler or a
\* stopword.
LowSignal ==
    \A i \in 1..Len(transcript) :
        \/ transcript[i] \in Punct \cup {Blank}
        \/ Lower(transcript[i]) \in FILLERS \cup STOPWORDS

\* C2: a transcript that is empty, whitespace or made of fillers, stopwords
\* and punctuation only gives exactly ["neutral"], and the call raises
\* nothing.
C2_FallbackTotality ==
    LowSignal => (pc # "raised" /\ (pc = "done" => result = Neutral))

\* Such a transcript with the stopword "today": its story rule fired, and the
\* call still gave ["neutral"].
C2_Witness ==
    /\ pc = "done"
    /\ LowSignal
    /\ InList("today", CleanWords)
    /\ InList(<<"today">>, generated)
    /\ result = Neutral

\* C3: _dedup_keep_best applied to its own output gives that output again.
C3_DedupIdempotent == pc = "twice" => twice = once

\* C4: no two beats of a result have token overlap 0.3 or more.
C4_NoNearDuplicateSurvivors == pc = "done" => NoNearDuplicates(result)

\* C5: no two phrases of the output of _dedup_keep_best have token overlap
\* 0.3 or more.
C5_DedupLeavesNoOverlap ==
    pc \in {"once", "twice"} => NoNearDuplicates(once)

\* The positions of the token sequence seq where a token of the phrase
\* stands.
Occurrences(seq, p) == {n \in 1..Len(seq) : seq[n] \in Range(Toks(p))}

\* With A and B the positions where the tokens of two phrases stand: the
\* earliest of A is before every one of B; true too when B is empty and A
\* is not.
AppearsBefore(A, B) == \E n \in A : \A m \in B : n < m

\* Where the tokens of each beat of the result stand in the normalized
\* transcript token sequence.
ResultOccurrences ==
    LET seq == NormalizeTokensForOrder(transcript)
    IN  [i \in 1..Len(result) |-> Occurrences(seq, result[i])]

\* C6: a beat whose earliest token stands before the earliest token of
\* another beat comes before it in the result, and a beat with no token in
\* the transcript comes after every beat that has one.
C6_OrderPreserved ==
    pc = "done" =>
        LET occ == ResultOccurrences
        IN  \A i, j \in 1..Len(result) :
                AppearsBefore(occ[i], occ[j]) => i < j

\* A result whose second beat was generated first and has no token in the
\* transcript, after a beat that has one.
C6_Witness ==
    /\ pc = "done"
    /\ Len(result) = 2
    /\ generated[1] = result[2]
    /\ ResultOccurrences[2] = {}
    /\ ResultOccurrences[1] # {}

\* C7: every emotion word that is a whole word of the transcript is a beat
\* of the result, or a word of one, when max_k is large enough.
C7_EmotionWordGuarantee ==
    (pc = "done" /\ NothingCut) =>
        \A w \in EMOTION_WORDS :
            InList(w, CleanWords) => Carried(result, <<w>>)

\* C8: a call during which the ranking service raises still returns.
C8_RankingFailureTolerated == pc # "raised"

\* C9: when the fill ran, every rare token of the transcript is a beat of
\* the result, or a word of one, when max_k is large enough.
C9_RareTokenFill ==
    (pc = "done" /\ filled /\ NothingCut) =>
        \A i \in 1..Len(RareTokens(transcript)) :
            Carried(result, <<RareTokens(transcript)[i]>>)

\* The transcript has the words ws next to each other, as written.
Mentions(ws) ==
    HasRun([i \in 1..Len(transcript) |-> Lower(transcript[i])], ws)

RuleBeats == {<<"raining">>, <<"go", "home">>}

\* C10 as claimed: a transcript with "raining" and "go home" gives a result
\* with a beat that is or includes "raining" and one that is or includes
\* "go home", when max_k is large enough.
C10_RuleBeatsSurface ==
    (/\ pc = "done"
     /\ NothingCut
     /\ \A x \in RuleBeats : Mentions(x))
        => \A x \in RuleBeats : Carried(result, x)

\* A candidate that carries x has token overlap 0.3 or more with a candidate
\* that does not.
Contested(x) ==
    \E i, j \in 1..Len(generated) :
        /\ HasRun(generated[i], x)
        /\ ~HasRun(generated[j], x)
        /\ NearDuplicate(generated[i], generated[j])

\* C10 as amended: for such a transcript both "raining" and "go home" are
\* among the candidates, and each is in the result, as a beat or inside one,
\* unless a candidate carrying it overlaps a candidate without it.
C10_RuleBeatsSurfaceUnlessContested ==
    (\A x \in RuleBeats : Mentions(x)) =>
        /\ pc \in {"inject", "fill", "order", "return", "done"} =>
               \A x \in RuleBeats : InList(x, generated)
        /\ (pc = "done" /\ NothingCut) =>
               \A x \in RuleBeats : Carried(result, x) \/ Contested(x)

\* Both rule beats reached the result, neither contested.
C10_Witness ==
    /\ pc = "done"
    /\ NothingCut
    /\ \A x \in RuleBeats :
           Mentions(x) /\ Carried(result, x) /\ ~Contested(x)

\* The story-rule markers of two words that stay two words when filtered.
Markers == {<<"next", "day">>, <<"after", "lunch">>, <<"go", "home">>}

\* C11: every two-word marker "next day", "after lunch", "go home" that the
\* transcript has is in the result, as a beat or inside a longer one, when
\* max_k is large enough.
C11_MarkersSurface ==
    (pc = "done" /\ NothingCut) =>
        \A m \in Markers : HasRun(CleanWords, m) => Carried(result, m)

\* C12: no phrase string is twice in a result.
C12_NoRepeatedBeat ==
    pc = "done" =>
        \A i, j \in 1..Len(result) : result[i] = result[j] => i = j

\* The words of p are words of clauses, and no one clause has them all.
CrossesBoundary(p) ==
    LET words(c) == Range(CleanText(ExpandContractions(c)))
    IN  /\ \A w \in Range(p) : \E i \in 1..Len(clauses) : w \in words(clauses[i])
        /\ \A i \in 1..Len(clauses) : ~(Range(p) \subseteq words(clauses[i]))

\* C16: every phrase of the list collected before deduplication has all its
\* words in one clause.
C16_NoPhraseAcrossClauses ==
    pc \in {"inject", "fill", "order", "return", "done"} =>
        \A i \in 1..Len(generated) : ~CrossesBoundary(generated[i])

\* C17: every beat of a result other than ["neutral"] has 1 to 5 words, none
\* of them a filler, discourse, stopword or generic-drop word or shorter than
\* 2 characters.
C17_BeatsAreFilteredTokens ==
    (pc = "done" /\ result # Neutral) =>
        \A i \in 1..Len(result) :
            /\ Len(result[i]) \in 1..5
            /\ PhraseTokens(result[i]) = result[i]

\* Two phrases of the list surv, with token overlap 0.3 or more, the first
\* with the higher score.
Rivals(surv, P, Q) ==
    /\ InList(P, surv)
    /\ InList(Q, surv)
    /\ NearDuplicate(P, Q)
    /\ ScorePhrase(P) > ScorePhrase(Q)

ClauseTokens == PhraseTokens(CleanText(ExpandContractions(clause_raw)))

\* C18: a clause of 1 to 3 filtered tokens gives exactly one beat, those
\* tokens in order, a clause of none gives nothing, and the ranking service
\* is not called for either.
C18_ShortClauseOneBeat ==
    (pc \in {"ranking", "extracted"} /\ Len(ClauseTokens) <= 3) =>
        /\ ~called
        /\ pc = "extracted"
        /\ returned = IF ClauseTokens = <<>> THEN <<>> ELSE <<ClauseTokens>>

\* A clause of 5 words and 3 filtered tokens gave the one beat of its tokens.
C18_Witness ==
    /\ pc = "extracted"
    /\ Len(clause_raw) = 5
    /\ Len(ClauseTokens) = 3
    /\ returned = <<ClauseTokens>>
    /\ ~called

\* The combined score (doubled, hundredths) of a ranked pair, from its
\* filtered tokens.
CombinedOf(e) == 2 * StoryQuality(PhraseTokens(e.phrase)) - e.score

\* The ranked pairs that pass the three tests of lines 185-194.
Passing ==
    {i \in 1..Len(yake_ranked) :
        LET e == yake_ranked[i]
        IN  /\ ~("not" \in Range(e.phrase)
                   /\ Range(e.phrase) \cap EMOTION_WORDS # {})
            /\ Len(PhraseTokens(e.phrase)) \in 1..5
            /\ CombinedOf(e) >= 2 * MIN_PHRASE_SCORE}

\* C19: for a clause of more than 3 filtered tokens the list candidates holds
\* the passing pairs, each once, in non-increasing order of combined score,
\* and the phrases returned are those of its first 4 (of all when it has
\* fewer): at most 4, and none left out for a lower-scoring one.
C19_TopFourByScore ==
    (pc = "extracted" /\ Len(ClauseTokens) > 3) =>
        /\ Len(returned) <= 4
        /\ Len(returned) = Min(4, Cardinality(Passing))
        /\ Len(candidates) = Cardinality(Passing)
        /\ \A i \in Passing :
               \E j \in 1..Len(candidates) :
                   /\ candidates[j].v = PhraseTokens(yake_ranked[i].phrase)
                   /\ 0 - candidates[j].k = CombinedOf(yake_ranked[i])
        /\ \A j \in 1..(Len(candidates) - 1) :
               candidates[j].k <= candidates[j + 1].k
        /\ \A j \in 1..Len(returned) : returned[j] = candidates[j].v

\* Five pairs passed, not in the order of their scores, and four phrases
\* were returned.
C19_Witness ==
    /\ pc = "extracted"
    /\ Cardinality(Passing) = 5
    /\ Len(returned) = 4
    /\ CombinedOf(yake_ranked[1]) < CombinedOf(yake_ranked[2])

\* C20: every phrase returned by the ranked path is the filtered tokens, 1 to
\* 5 of them, of a ranked pair whose combined score is 1.0 or more and whose
\* phrase does not have "not" together with an emotion word.
C20_ReturnedPassTests ==
    (pc = "extracted" /\ called) =>
        \A j \in 1..Len(returned) :
            \E i \in 1..Len(yake_ranked) :
                LET e == yake_ranked[i]
                IN  /\ returned[j] = PhraseTokens(e.phrase)
                    /\ Len(returned[j]) \in 1..5
                    /\ CombinedOf(e) >= 2 * MIN_PHRASE_SCORE
                    /\ ~("not" \in Range(e.phrase)
                           /\ Range(e.phrase) \cap EMOTION_WORDS # {})

\* The ranking had a negated emotion and a low-scoring pair, and only the
\* phrase of a third pair was returned.
C20_Witness ==
    /\ pc = "extracted"
    /\ called
    /\ Len(yake_ranked) = 3
    /\ Len(returned) = 1
    /\ \E i \in 1..3 : "not" \in Range(yake_ranked[i].phrase)
    /\ \E i \in 1..3 : yake_ranked[i].score = 300

\* C13: two calls with the same transcript, the same max_k and the same
\* answers of the ranking service return the same list, whatever the order
\* in which each walked the emotion words.
C13_SameInputsSameResult ==
    \A i, j \in DOMAIN call :
        (/\ call[i].pc = "done"
         /\ call[j].pc = "done"
         /\ call[i].transcript = call[j].transcript
         /\ call[i].max_k = call[j].max_k
         /\ call[i].responses = call[j].responses)
            => call[i].result = call[j].result

\* Two such calls walked two emotion words, neither of them in a beat
\* before, in different orders, and returned the same beats.
C13_Witness ==
    /\ pc = "two"
    /\ call[1].pc = "done"
    /\ call[2].pc = "done"
    /\ call[1].transcript = call[2].transcript
    /\ call[1].max_k = call[2].max_k
    /\ call[1].responses = call[2].responses
    /\ Len(call[1].order) = 2
    /\ call[1].order # call[2].order
    /\ call[1].responses = <<(<<>>)>>
    /\ call[1].result = call[2].result
    /\ call[1].result # Neutral

\* What a call returns when it runs alone, for each order of the walk of the
\* emotion words.
AloneResults(c) ==
    {ExtractKeyPhrases(c.transcript, c.max_k, c.responses, order) :
        order \in Orders(PresentEmotions(c.transcript))}

\* C14: under every interleaving of two calls each call returns what it
\* returns alone, and a step of one call leaves the list of the other as it
\* is.
C14_CallsIndependent ==
    /\ [](\A i \in DOMAIN call :
             call[i].pc = "done" => call[i].result \in AloneResults(call[i]))
    /\ [][\A j \in DOMAIN call :
             call'[j] = call[j] => lists'[ListOf(j)] = lists[ListOf(j)]]_vars

\* Two calls on different transcripts, each moving while the other ran, both
\* returned beats.
C14_Witness ==
    /\ pc = "two"
    /\ mixed
    /\ call[1].pc = "done"
    /\ call[2].pc = "done"
    /\ call[1].transcript # call[2].transcript
    /\ call[1].result # Neutral
    /\ call[2].result # Neutral

(***************************************************************************)
(* Stages of _dedup_keep_best, clause splitting.                           *)
(***************************************************************************)
\* Phrase i of the list given to stage 1 has no token, or its cleaned words
\* are a run of the words of a different, longer cleaned phrase of the list.
DroppedByStageOne(i) ==
    \/ Toks(phrases[i]) = <<>>
    \/ \E j \in 1..Len(phrases) :
           /\ Toks(phrases[j]) # Toks(phrases[i])
           /\ StrLen(Toks(phrases[j])) > StrLen(Toks(phrases[i]))
           /\ HasRun(Toks(phrases[j]), Toks(phrases[i]))

\* C21: what stage 1 returns is the input without the phrases that are empty
\* when cleaned or contained, as whole words, in a different and longer
\* cleaned phrase of the input, the others in input order; and every dropped
\* phrase that is not empty is contained in a phrase stage 1 returns.
C21_StageOneDropsContained ==
    pc \in {"stage2", "deduped"} =>
        /\ survivors =
               Pick(phrases,
                    {i \in 1..Len(phrases) : ~DroppedByStageOne(i)})
        /\ \A i \in 1..Len(phrases) :
               (DroppedByStageOne(i) /\ Toks(phrases[i]) # <<>>) =>
                   \E n \in 1..Len(survivors) :
                       HasRun(Toks(survivors[n]), Toks(phrases[i]))

\* Stage 1 has dropped a phrase contained in a phrase that is itself
\* dropped.
C21_Witness ==
    /\ pc = "stage2"
    /\ \E i, j \in 1..Len(phrases) :
           /\ DroppedByStageOne(i) /\ DroppedByStageOne(j)
           /\ Toks(phrases[i]) # <<>>
           /\ Toks(phrases[i]) # Toks(phrases[j])
           /\ HasRun(Toks(phrases[j]), Toks(phrases[i]))
    /\ survivors # <<>>

\* The kept representatives the phrase at the head of todo overlaps.
OverlappedReps ==
    {i \in 1..Len(kept) : NearDuplicate(Head(todo), kept[i])}

FirstOverlappedRep ==
    CHOOSE i \in OverlappedReps : \A j \in OverlappedReps : i <= j

\* C22: a step of stage 2 whose phrase overlaps a kept representative puts the
\* phrase in the place of the first such representative when its score is
\* strictly higher and leaves kept as it is otherwise (equal scores
\* included); the number of representatives is the same after the step.
C22_ReplaceOnlyIfHigher ==
    [][(pc = "stage2" /\ todo # <<>> /\ OverlappedReps # {}) =>
          /\ Len(kept') = Len(kept)
          /\ IF ScorePhrase(Head(todo)) > ScorePhrase(kept[FirstOverlappedRep])
             THEN kept' = [kept EXCEPT ![FirstOverlappedRep] = Head(todo)]
             ELSE kept' = kept]_vars

\* Stage 2 is over for three phrases that all came through stage 1: the
\* second, of the same score as the first and overlapping it, left it in
\* place, and the third, of a higher score, took the place.
C22_Witness ==
    /\ pc = "stage2"
    /\ todo = <<>>
    /\ Len(survivors) = 3
    /\ NearDuplicate(survivors[1], survivors[2])
    /\ ScorePhrase(survivors[1]) = ScorePhrase(survivors[2])
    /\ survivors[1] # survivors[2]
    /\ ScorePhrase(survivors[3]) > ScorePhrase(survivors[1])
    /\ kept = <<survivors[3]>>

\* C23: what _dedup_keep_best returns has no phrase of a one-token set whose
\* token is in the token set, of two or more tokens, of another phrase
\* returned.
C23_NoAbsorbedSingleton ==
    pc = "deduped" =>
        \A i, j \in 1..Len(final) :
            ~(/\ i # j
              /\ Cardinality(Range(Toks(final[i]))) = 1
              /\ Cardinality(Range(Toks(final[j]))) >= 2
              /\ Range(Toks(final[i])) \subseteq Range(Toks(final[j])))

\* Stage 3 has dropped a phrase that stages 1 and 2 kept.
C23_Witness ==
    /\ pc = "deduped"
    /\ Len(final) < Len(kept)
    /\ final # <<>>

\* The text raw, expanded and lowercased (line 90).
LoweredRaw ==
    [i \in 1..Len(ExpandContractions(raw)) |->
        Lower(ExpandContractions(raw)[i])]

\* raw has none of . , ! ? ; : and none of the markers.
NoPunctNoMarker ==
    \A i \in 1..Len(LoweredRaw) :
        LoweredRaw[i] \notin Punct \cup {"then", "but", "so"}

\* s without the whitespace at its two ends.
WithoutEndBlanks(s) ==
    LET words == {i \in 1..Len(s) : s[i] # Blank}
    IN  IF words = {} THEN <<>>
        ELSE SubSeq(s, CHOOSE i \in words : \A j \in words : i <= j,
                       CHOOSE i \in words : \A j \in words : i >= j)

\* The words of s that are neither punctuation nor whitespace, in order.
WordsOf(s) == SelectSeq(s, LAMBDA w : w \notin Punct \cup {Blank})

\* No clause returned is empty or only whitespace, and the words of the
\* clauses, read clause after clause, are the words of the text in their
\* order, the markers left out.
NonEmptyInOrder ==
    /\ \A i \in 1..Len(parts) : WordsOf(parts[i]) # <<>>
    /\ WordsOf(Concat(parts)) = WordsOf(ReplaceMarkers(LoweredRaw))

\* C24, as the claim has it: a text with no clause punctuation and no marker
\* gives exactly one clause, the whole expanded and lowercased text; in
\* general the clauses are non-empty and in their order.
C24_OneClauseWholeText ==
    pc = "clauses" =>
        /\ NoPunctNoMarker => parts = <<LoweredRaw>>
        /\ NonEmptyInOrder

\* C24 amended: the one clause is the text without the whitespace at its
\* ends, and a text that is empty or only whitespace gives no clause.
C24_OneClauseTrimmedText ==
    pc = "clauses" =>
        /\ NoPunctNoMarker =>
               parts = IF WithoutEndBlanks(LoweredRaw) = <<>> THEN <<>>
                       ELSE <<WithoutEndBlanks(LoweredRaw)>>
        /\ NonEmptyInOrder

\* A text with whitespace at both ends and inside, and neither punctuation
\* nor marker, has been split.
C24_Witness ==
    /\ pc = "clauses"
    /\ NoPunctNoMarker
    /\ Len(raw) >= 5
    /\ raw[1] = Blank /\ raw[Len(raw)] = Blank
    /\ Len(parts) = 1
    /\ Len(parts[1]) = 3

(***************************************************************************)
(* Order of the stages, vocabularies, truncation, short beats.             *)
(***************************************************************************)
\* C25: a call that does not return early goes Generate, Dedup, Inject,
\* Dedup, then Fill with a third Dedup exactly when the second Dedup left
\* fewer than 6 beats, then Order, then Truncate; with 6 beats or more
\* nothing is added and the list ordered is what the second Dedup returned.
C25_PipelineOrder ==
    [][/\ (pc = "clauses" /\ pc' = "inject") =>
              /\ generated' = collected
              /\ collected' = DedupKeepBest(collected)
       /\ pc = "inject" =>
              /\ pc' = "fill"
              /\ \E order \in Orders(PresentEmotions(transcript)) :
                     collected' = DedupKeepBest(InsertEmotions(order, collected))
       /\ pc = "fill" =>
              /\ pc' = "order"
              /\ filled' = (Len(collected) < 6)
              /\ IF Len(collected) < 6
                 THEN collected' =
                          DedupKeepBest(AppendMissing(RareTokens(transcript),
                                                      collected))
                 ELSE collected' = collected
       /\ pc = "order" =>
              /\ pc' = "return"
              /\ collected' = SortByAppearance(full_tokens, collected)
       /\ pc = "return" =>
              /\ pc' = "done"
              /\ Len(result') <= max_k'
       /\ pc' = "inject" => pc = "clauses"
       /\ pc' = "fill" => pc = "inject"
       /\ pc' = "order" => pc = "fill"
       /\ pc' = "return" => pc = "order"]_vars

\* The second Dedup left 6 beats and the call went on to Order without Fill.
C25_Witness ==
    /\ pc = "order"
    /\ ~filled
    /\ Len(collected) >= 6

\* The vocabularies, of the four, that have the word w.
VocabulariesOf(w) ==
    {v \in {FILLERS, DISCOURSE, STOPWORDS, GENERIC_DROP} : w \in v}

\* C26: no word, of the transcript or of the vocabularies, is in two of
\* FILLERS, DISCOURSE, STOPWORDS and GENERIC_DROP.
C26_VocabulariesDisjoint ==
    \A w \in Range(CleanWords) \cup FILLERS \cup DISCOURSE \cup STOPWORDS
                \cup GENERIC_DROP :
        Cardinality(VocabulariesOf(w)) <= 1

\* C27: two calls on the same transcript with the same answers of the
\* ranking service and max_k = k1 <= k2: the result for k1 is the first
\* min(k1, n) elements of the result for k2, n the length of that result.
C27_TruncationPrefix ==
    \A a, b \in DOMAIN call :
        (/\ call[a].pc = "done" /\ call[b].pc = "done"
         /\ call[a].transcript = call[b].transcript
         /\ call[a].responses = call[b].responses
         /\ call[a].max_k <= call[b].max_k) =>
            call[a].result =
                SubSeq(call[b].result, 1,
                       Min(call[a].max_k, Len(call[b].result)))

\* Two calls on the same transcript have returned, one with max_k = 1 and
\* one beat, the other with max_k = 2 and two beats.
C27_Witness ==
    /\ pc = "two"
    /\ call[1].pc = "done" /\ call[2].pc = "done"
    /\ call[1].transcript = call[2].transcript
    /\ call[1].responses = call[2].responses
    /\ call[1].max_k = 1 /\ call[2].max_k = 2
    /\ Len(call[1].result) = 1 /\ Len(call[2].result) = 2

\* C28: no beat returned has 2 characters or fewer; the beats that short are
\* taken out of the ordered list before the first max_k are taken, and when
\* none is longer the result is ["neutral"].
C28_NoShortBeat ==
    /\ [](pc = "done" => \A i \in 1..Len(result) : StrLen(result[i]) > 2)
    /\ [][pc = "return" =>
              LET long == SelectSeq(collected, LAMBDA b : StrLen(b) > 2)
              IN  result' = IF long = <<>> THEN Neutral
                            ELSE SubSeq(long, 1, Min(max_k', Len(long)))]_vars

\* "go, before lunch" with max_k = 1: the beat "go" is first in the
\* transcript and the one place goes to "before lunch".
C28_Witness ==
    /\ pc = "done"
    /\ transcript = <<"go", ",", "before", "lunch">>
    /\ InList(<<"go">>, generated)
    /\ max_k = 1
    /\ result = <<(<<"before", "lunch">>)>>

(***************************************************************************)
(* Temporary files of handle_audio.                                        *)
(***************************************************************************)
\* The temporary files invocation i has named.
NamedPaths(i) ==
    {handler[i].ogg_path, handler[i].wav_path, handler[i].soundbite_path}
        \ {None}

\* Invocation i is at the end of its finally clause, about to leave
\* handle_audio.
Leaving(i) ==
    /\ handler[i].pc = "finally"
    /\ handler[i].fi > Len(CleanupPaths(i))

\* C29: when an invocation of handle_audio leaves, by whatever way, os.remove
\* has been called on every file it named that the loop of the finally
\* clause found, and if no removal failed none of the files it named is left
\* as it wrote it.
C29_CleanupOnEveryExit ==
    \A i \in DOMAIN handler :
        Leaving(i) =>
            /\ handler[i].seen \subseteq handler[i].attempted
            /\ \A path \in NamedPaths(i) :
                   ~handler[i].failed => files[path] # i

\* An invocation leaves whose except handler raised after the soundbite had
\* been written: the three files were found and removed.
C29_Witness ==
    \E i \in DOMAIN handler :
        /\ Leaving(i)
        /\ handler[i].reraised
        /\ handler[i].result # None
        /\ Cardinality(handler[i].attempted) = 3
        /\ ~handler[i].failed
        /\ \A path \in NamedPaths(i) : files[path] = Absent

\* C30: no invocation overwrites, reads or deletes a file another invocation
\* wrote.
C30_NoInterference == foreign = {}

====
